---- MODULE Spec2Model ----
(***************************************************************************)
(* Model of btc-txn-builder/app/bitcoin_transaction_builder.py:            *)
(* BitcoinTransactionBuilder with its UTXO / TransactionInput /            *)
(* TransactionOutput records.                                              *)
(*                                                                         *)
(* Conventions                                                             *)
(*   - an optional Python value is <<>> (None) or <<x>> (the value x);     *)
(*   - a Python bytes value is a sequence of chunks [k, v, len]: a chunk   *)
(*     of kind "byte" is one concrete byte v, any other kind is the output *)
(*     of a library primitive (hashlib, ecdsa) of len bytes, identified by *)
(*     what it was computed from;                                          *)
(*   - ret is what the last call returned or raised;                       *)
(*   - integers stay below 2^31.                                           *)
(***************************************************************************)
EXTENDS Integers, Sequences, FiniteSets, TLC

VARIABLES
    inputs,          \* self.inputs: list of TransactionInput
    outputs,         \* self.outputs: list of TransactionOutput
    fee_rate,        \* self.fee_rate
    change_address,  \* self.change_address: optional str
    wallet,          \* the caller's list of UTXOs, passed to select_utxos
    other,           \* the inputs and outputs of a second builder instance
    ret              \* outcome of the caller's last statement

builder == <<inputs, outputs, fee_rate, change_address>>
vars == <<inputs, outputs, fee_rate, change_address, wallet, other, ret>>

(* ------------------------------ bounds -------------------------------- *)
MaxInputs == 2
MaxOutputs == 2
MaxUtxos == 3

(* --------------------------- optional values -------------------------- *)
None == <<>>
Some(x) == <<x>>

\* Python truthiness of an optional str: None and "" are falsy.
TruthyStr(opt) == opt # None /\ opt[1] # ""

\* Python truthiness of an optional bytes: None and b"" are falsy.
TruthyBytes(opt) == opt # None /\ opt[1] # <<>>

(* ------------------------------- bytes -------------------------------- *)
Byte(n) == [k |-> "byte", v |-> n, len |-> 1]

RECURSIVE ByteLen(_)
ByteLen(bs) == IF bs = <<>> THEN 0 ELSE Head(bs).len + ByteLen(Tail(bs))

\* int.to_bytes(1, 'little'): one byte, OverflowError above 255.
ToBytes1Ok(n) == n >= 0 /\ n <= 255
ToBytes1(n) == <<Byte(n)>>

\* struct.pack("<I", n): four bytes, least significant first; struct.error
\* outside 0 .. 2^32-1 (the model's integers stay below 2^31, so only the
\* lower limit can be missed).
PackU32Ok(n) == n >= 0
PackU32(n) ==
    << Byte(n % 256), Byte((n \div 256) % 256),
       Byte((n \div 65536) % 256), Byte((n \div 16777216) % 256) >>

\* str.encode(): UTF-8 of a text given as a sequence of ASCII characters.
CharCode(c) ==
    CASE c = "a" -> 97 [] c = "b" -> 98 [] c = "c" -> 99
      [] c = "d" -> 100 [] c = "e" -> 101 [] c = "f" -> 102
      [] c = "1" -> 49 [] c = "2" -> 50 [] c = "3" -> 51

RECURSIVE Encode(_)
Encode(s) == IF s = <<>> THEN <<>> ELSE <<Byte(CharCode(Head(s)))>> \o Encode(Tail(s))

\* bytes.hex(): two lowercase hex digits per byte.
HexDigits == <<"0","1","2","3","4","5","6","7","8","9","a","b","c","d","e","f">>

HexChunk(c) ==
    IF c.k = "byte"
    THEN << HexDigits[(c.v \div 16) + 1], HexDigits[(c.v % 16) + 1] >>
    ELSE << [hexof |-> c.k, v |-> c.v, len |-> 2 * c.len] >>

RECURSIVE Hex(_)
Hex(bs) == IF bs = <<>> THEN <<>> ELSE HexChunk(Head(bs)) \o Hex(Tail(bs))

\* hashlib.sha256(hashlib.sha256(data).digest()).digest(): 32 bytes, taken
\* as collision free (identified by the data hashed).
Sha256d(data) == << [k |-> "sha256d", v |-> data, len |-> 32] >>

(* ------------------------------ records ------------------------------- *)
UTXO(txid, vout, amount, script_pubkey) ==
    [txid |-> txid, vout |-> vout, amount |-> amount, script_pubkey |-> script_pubkey]

\* 0xffffffff, written as its two 16-bit halves <<high, low>>
SequenceFinal == <<65535, 65535>>

TransactionInput(utxo) ==
    [txid |-> utxo.txid, vout |-> utxo.vout, script_sig |-> None,
     witness |-> None, sequence |-> SequenceFinal]

TransactionOutput(amount, script_pubkey) ==
    [amount |-> amount, script_pubkey |-> script_pubkey]

(* ---------------------------- select_utxos ---------------------------- *)
\* sorted(xs, key=amount, reverse=True): stable, equal amounts keep their
\* original relative order.
\* variant: an insertion that puts a UTXO before the equal amounts already
\* placed (an unstable sort)
RECURSIVE InsertDesc_Unstable(_, _)
InsertDesc_Unstable(sorted, u) ==
    IF sorted = <<>> THEN <<u>>
    ELSE IF Head(sorted).amount > u.amount
         THEN <<Head(sorted)>> \o InsertDesc_Unstable(Tail(sorted), u)
         ELSE <<u>> \o sorted

RECURSIVE InsertDesc(_, _)
InsertDesc(sorted, u) ==
    IF sorted = <<>> THEN <<u>>
    ELSE IF Head(sorted).amount >= u.amount
         THEN <<Head(sorted)>> \o InsertDesc(Tail(sorted), u)
         ELSE <<u>> \o sorted

RECURSIVE SortedDesc(_)
SortedDesc(xs) ==
    IF xs = <<>> THEN <<>>
    ELSE InsertDesc(SortedDesc(SubSeq(xs, 1, Len(xs) - 1)), xs[Len(xs)])

\* the for loop of select_utxos from position k of sorted_utxos
RECURSIVE SelectLoop(_, _, _, _, _)
SelectLoop(sorted_utxos, k, selected_utxos, total_amount, target_amount) ==
    IF k > Len(sorted_utxos)
    THEN [selected |-> selected_utxos, total |-> total_amount]
    ELSE LET sel == Append(selected_utxos, sorted_utxos[k])
             tot == total_amount + sorted_utxos[k].amount
         IN IF tot >= target_amount
            THEN [selected |-> sel, total |-> tot]
            ELSE SelectLoop(sorted_utxos, k + 1, sel, tot, target_amount)

\* variant: available_utxos.sort(...) in place of sorted(available_utxos)
select_utxos_SortsInPlace(available_utxos, target_amount) ==
    LET sorted_utxos == SortedDesc(available_utxos)
        r == SelectLoop(sorted_utxos, 1, <<>>, 0, target_amount)
    IN IF r.total < target_amount
       THEN [status |-> "ValueError", val |-> <<>>, available |-> sorted_utxos]
       ELSE [status |-> "ok", val |-> r.selected, available |-> sorted_utxos]

select_utxos(available_utxos, target_amount) ==
    LET sorted_utxos == SortedDesc(available_utxos)
        r == SelectLoop(sorted_utxos, 1, <<>>, 0, target_amount)
    IN IF r.total < target_amount
       THEN [status |-> "ValueError", val |-> <<>>, available |-> available_utxos]
       ELSE [status |-> "ok", val |-> r.selected, available |-> available_utxos]

(* ------------------------- sample inputs ------------------------------ *)
\* the caller's UTXO list of the builder scenario (two UTXOs, as in
\* test_bitcoin_transaction.py setUp, with short txids)
U1 == UTXO(<<"a", "b">>, 0, 100000, "76a914a1")
U2 == UTXO(<<"a", "b", "c">>, 1, 200000, "76a914a2")
TestUtxos == <<U1, U2>>
TestTargets == {50000, 150000, 1000000}

FeeRates == {1, 2}
ChangeAddresses == {None, Some(""), Some("76a914cc")}
OutputArgs == {<<50000, "76a914test">>}
\* add_change_output arguments around the dust threshold
ChangeInputAmounts == {100000}
ChangeOutputAmounts == {99454, 99455, 100001}
ChangeFees == {0, 1}

\* private keys: a well-formed 32-byte scalar, a 31-byte string, and 32
\* zero bytes (scalar 0, outside 1 .. n-1)
GoodKey == [id |-> "k1", len |-> 32, inrange |-> TRUE]
ShortKey == [id |-> "short", len |-> 31, inrange |-> TRUE]
ZeroKey == [id |-> "zero", len |-> 32, inrange |-> FALSE]
PrivateKeys == {GoodKey, ShortKey, ZeroKey}
SigHashTypes == {1}
\* the random nonce of ecdsa sign_digest: different calls give different
\* signatures, of different DER lengths
SigNonces == {1, 2}
SignIndices == (0 - (MaxInputs + 1)) .. MaxInputs

(* ------------------------------ builder ------------------------------- *)
\* A method is an operator from the builder (self) and its arguments to
\* the builder after the call, with what the call returned or raised.
Self ==
    [inputs |-> inputs, outputs |-> outputs,
     fee_rate |-> fee_rate, change_address |-> change_address]

Returned(self, val) == [self |-> self, status |-> "ok", val |-> val]
Raised(self, error) == [self |-> self, status |-> error, val |-> None]

Ret(op, arg, status, val) == [op |-> op, arg |-> arg, status |-> status, val |-> val]

\* the builder and ret after the call op that gave r
Becomes(op, arg, r) ==
    /\ inputs' = r.self.inputs
    /\ outputs' = r.self.outputs
    /\ fee_rate' = r.self.fee_rate
    /\ change_address' = r.self.change_address
    /\ ret' = Ret(op, arg, r.status, r.val)

Init ==
    /\ inputs = <<>>
    /\ outputs = <<>>
    /\ fee_rate = 1
    /\ change_address = None
    /\ wallet = TestUtxos
    /\ other = [inputs |-> <<>>, outputs |-> <<>>]
    /\ ret = Ret("init", 0, "ok", None)

SelectUtxos(target_amount) ==
    LET r == select_utxos(wallet, target_amount)
    IN /\ wallet' = r.available
       /\ ret' = Ret("select_utxos", target_amount, r.status, r.val)
       /\ UNCHANGED <<builder, other>>

add_input(self, utxo) ==
    Returned([self EXCEPT !.inputs = Append(self.inputs, TransactionInput(utxo))], None)

AddInput(utxo) ==
    /\ Len(inputs) < MaxInputs
    /\ Becomes("add_input", 0, add_input(Self, utxo))
    /\ UNCHANGED <<wallet, other>>

\* variant: insert(0, ...) in place of append
add_output_Prepend(self, amount, script_pubkey) ==
    Returned([self EXCEPT !.outputs =
                 <<TransactionOutput(amount, script_pubkey)>> \o self.outputs], None)

add_output(self, amount, script_pubkey) ==
    Returned([self EXCEPT !.outputs =
                 Append(self.outputs, TransactionOutput(amount, script_pubkey))], None)

AddOutput(amount, script_pubkey) ==
    /\ Len(outputs) < MaxOutputs
    /\ Becomes("add_output", 0, add_output(Self, amount, script_pubkey))
    /\ UNCHANGED <<wallet, other>>

\* variant: the per-input and per-output sizes exchanged
estimated_vsize_Swapped(self) == 10 + Len(self.inputs) * 34 + Len(self.outputs) * 68

estimated_vsize(self) == 10 + Len(self.inputs) * 68 + Len(self.outputs) * 34

calculate_fee(self) == Returned(self, estimated_vsize(self) * self.fee_rate)

CalculateFee ==
    /\ Becomes("calculate_fee", 0, calculate_fee(Self))
    /\ UNCHANGED <<wallet, other>>

DustThreshold == 546

\* variant: a change of exactly the dust threshold is dropped
change_wanted_Strict(change_amount, addr) == change_amount > 546 /\ TruthyStr(addr)

\* the condition under which add_change_output calls add_output
change_wanted(change_amount, addr) == change_amount >= DustThreshold /\ TruthyStr(addr)

add_change_output(self, input_amount, output_amount, fee) ==
    LET change_amount == input_amount - output_amount - fee
    IN IF change_wanted(change_amount, self.change_address)
       THEN Returned(add_output(self, change_amount, self.change_address[1]).self, None)
       ELSE Returned(self, None)

AddChangeOutput(input_amount, output_amount, fee) ==
    LET r == add_change_output(Self, input_amount, output_amount, fee)
    IN /\ Len(r.self.outputs) <= MaxOutputs
       /\ Becomes("add_change_output", 0, r)
       /\ UNCHANGED <<wallet, other>>

\* assignment to the public attributes fee_rate and change_address
SetFeeRate(rate) ==
    /\ Becomes("setattr", 0, Returned([Self EXCEPT !.fee_rate = rate], None))
    /\ UNCHANGED <<wallet, other>>

SetChangeAddress(addr) ==
    /\ Becomes("setattr", 0, Returned([Self EXCEPT !.change_address = addr], None))
    /\ UNCHANGED <<wallet, other>>

(* ------------------------------ signing ------------------------------- *)
\* Python list indexing: -n .. n-1 are valid, negative indices count from
\* the end; anything else raises IndexError.
PyIndexOk(n, i) == i >= 0 - n /\ i < n
PyIndex(n, i) == IF i >= 0 THEN i + 1 ELSE n + i + 1

\* variant: the output count is left out of the serialization
data_to_sign_NoOutputCount(self, input_index) ==
    PackU32(1)
    \o ToBytes1(Len(self.inputs))
    \o Encode(self.inputs[PyIndex(Len(self.inputs), input_index)].txid)
    \o PackU32(self.inputs[PyIndex(Len(self.inputs), input_index)].vout)

\* the bytes create_signature_hash serializes
data_to_sign(self, input_index) ==
    PackU32(1)
    \o ToBytes1(Len(self.inputs))
    \o Encode(self.inputs[PyIndex(Len(self.inputs), input_index)].txid)
    \o PackU32(self.inputs[PyIndex(Len(self.inputs), input_index)].vout)
    \o ToBytes1(Len(self.outputs))

\* variant: the sig_hash_type is serialized too
create_signature_hash_WithType(self, input_index, sig_hash_type) ==
    IF ~ToBytes1Ok(Len(self.inputs)) THEN Raised(self, "OverflowError")
    ELSE IF ~PyIndexOk(Len(self.inputs), input_index) THEN Raised(self, "IndexError")
    ELSE Returned(self, Sha256d(data_to_sign(self, input_index) \o PackU32(sig_hash_type)))

\* create_signature_hash; the operands of the concatenation are evaluated
\* left to right, each of them can raise
create_signature_hash(self, input_index, sig_hash_type) ==
    IF ~ToBytes1Ok(Len(self.inputs)) THEN Raised(self, "OverflowError")
    ELSE IF ~PyIndexOk(Len(self.inputs), input_index) THEN Raised(self, "IndexError")
    ELSE IF ~PackU32Ok(self.inputs[PyIndex(Len(self.inputs), input_index)].vout)
         THEN Raised(self, "struct.error")
    ELSE IF ~ToBytes1Ok(Len(self.outputs)) THEN Raised(self, "OverflowError")
    ELSE Returned(self, Sha256d(data_to_sign(self, input_index)))

\* variant: a key of any length is accepted
KeyOk_AnyLength(private_key) == private_key.inrange

\* ecdsa.SigningKey.from_string(private_key, curve=SECP256k1): accepts
\* exactly the 32-byte encodings of a scalar in 1 .. n-1
KeyOk(private_key) == private_key.len = 32 /\ private_key.inrange

\* signing_key.sign_digest(sig_hash, sigencode=sigencode_der) with nonce k
SignDigest(private_key, sig_hash, nonce) ==
    << [k |-> "ecdsa_der", v |-> <<private_key.id, sig_hash, nonce>>, len |-> 70 + nonce] >>

\* signing_key.get_verifying_key().to_string(): the raw 64-byte point
PublicKey(private_key) == << [k |-> "pubkey", v |-> private_key.id, len |-> 64] >>

\* variant: the public key is appended without its length byte
script_sig_of_NoPubkeyLen(signature, public_key) ==
    ToBytes1(ByteLen(signature)) \o signature \o public_key

\* the script sign_input stores
script_sig_of(signature, public_key) ==
    ToBytes1(ByteLen(signature)) \o signature \o ToBytes1(ByteLen(public_key)) \o public_key

\* sign_input, nonce being the random nonce sign_digest draws
sign_input(self, input_index, private_key, sig_hash_type, nonce) ==
    LET h == create_signature_hash(self, input_index, sig_hash_type)
    IN IF h.status # "ok" THEN Raised(self, h.status)
       ELSE IF ~KeyOk(private_key) THEN Raised(self, "MalformedPointError")
       ELSE IF ~ToBytes1Ok(sig_hash_type) THEN Raised(self, "ValueError")
       ELSE LET signature == SignDigest(private_key, h.val, nonce) \o <<Byte(sig_hash_type)>>
                public_key == PublicKey(private_key)
            IN Returned(
                  [self EXCEPT !.inputs[PyIndex(Len(self.inputs), input_index)].script_sig =
                      Some(script_sig_of(signature, public_key))],
                  None)

SignInput(input_index, private_key, sig_hash_type) ==
    \E nonce \in SigNonces :
       /\ Becomes("sign_input", 0,
                  sign_input(Self, input_index, private_key, sig_hash_type, nonce))
       /\ UNCHANGED <<wallet, other>>

(* ------------------------------- build -------------------------------- *)
\* variant: the script text is always empty
build_input_NoScript(input) ==
    [txid |-> input.txid, vout |-> input.vout, script_sig |-> <<>>,
     sequence |-> input.sequence]

build_input(input) ==
    [txid |-> input.txid, vout |-> input.vout,
     script_sig |-> IF TruthyBytes(input.script_sig) THEN Hex(input.script_sig[1]) ELSE <<>>,
     sequence |-> input.sequence]

build_output(output) ==
    [amount |-> output.amount, script_pubkey |-> output.script_pubkey]

build(self) ==
    Returned(self,
       [version |-> 1,
        inputs |-> [i \in 1 .. Len(self.inputs) |-> build_input(self.inputs[i])],
        outputs |-> [i \in 1 .. Len(self.outputs) |-> build_output(self.outputs[i])],
        locktime |-> 0])

Build ==
    /\ Becomes("build", 0, build(Self))
    /\ UNCHANGED <<wallet, other>>

(* ------------------------- builder life cycle ------------------------- *)
Next ==
    \/ \E t \in TestTargets : SelectUtxos(t)
    \/ \E i \in 1 .. Len(wallet) : AddInput(wallet[i])
    \/ \E o \in OutputArgs : AddOutput(o[1], o[2])
    \/ CalculateFee
    \/ \E ia \in ChangeInputAmounts, oa \in ChangeOutputAmounts, f \in ChangeFees :
          AddChangeOutput(ia, oa, f)
    \/ \E i \in SignIndices, key \in PrivateKeys, t \in SigHashTypes :
          SignInput(i, key, t)
    \/ Build
    \/ \E r \in FeeRates : SetFeeRate(r)
    \/ \E a \in ChangeAddresses : SetChangeAddress(a)

Spec == Init /\ [][Next]_vars

(* ======================== properties: builder ========================= *)
SameInputIdentity(a, b) == a.txid = b.txid /\ a.vout = b.vout /\ a.sequence = b.sequence

\* C3: add_change_output appends exactly one output of amount
\* input_amount - output_amount - fee to change_address iff that amount is
\* at least 546 and a (non-empty) change address is set; otherwise it
\* appends nothing; it never raises and never touches the inputs.
C3_ChangeOutput ==
    \A ia \in ChangeInputAmounts, oa \in ChangeOutputAmounts, f \in ChangeFees :
       LET r == add_change_output(Self, ia, oa, f)
       IN /\ r.status = "ok"
          /\ r.self.inputs = inputs
          /\ r.self.fee_rate = fee_rate
          /\ r.self.change_address = change_address
          /\ IF ia - oa - f >= 546 /\ change_address # None /\ change_address # Some("")
             THEN r.self.outputs = outputs \o
                    << [amount |-> ia - oa - f, script_pubkey |-> change_address[1]] >>
             ELSE r.self.outputs = outputs

\* a change output of exactly the dust threshold was appended after a payment
C3_Witness ==
    /\ ret.op = "add_change_output"
    /\ Len(outputs) = 2
    /\ change_address # None
    /\ outputs[2] = [amount |-> 546, script_pubkey |-> change_address[1]]

\* C4 as stated: every index outside 0 .. len(inputs)-1, negative ones
\* included, is refused with IndexError, a bad key with the invalid-key
\* error, and nothing changes.
C4_AsStated ==
    \A i \in SignIndices, key \in PrivateKeys, t \in SigHashTypes, n \in SigNonces :
       LET r == sign_input(Self, i, key, t, n)
       IN /\ (i < 0 \/ i >= Len(inputs)) =>
                (r.status = "IndexError" /\ r.self = Self)
          /\ (i >= 0 /\ i < Len(inputs) /\ (key.len # 32 \/ ~key.inrange)) =>
                (r.status = "MalformedPointError" /\ r.self = Self)

\* C4 amended: an index outside -len(inputs) .. len(inputs)-1 is refused with
\* IndexError; with an index inside that range a malformed or wrong-length
\* key is refused with the invalid-key error; in both cases no script_sig and
\* no other builder state changes.
C4_SignFailures ==
    \A i \in SignIndices, key \in PrivateKeys, t \in SigHashTypes, n \in SigNonces :
       LET r == sign_input(Self, i, key, t, n)
       IN /\ (i < 0 - Len(inputs) \/ i >= Len(inputs)) =>
                (r.status = "IndexError" /\ r.self = Self)
          /\ (i >= 0 - Len(inputs) /\ i < Len(inputs) /\ (key.len # 32 \/ ~key.inrange)) =>
                (r.status = "MalformedPointError" /\ r.self = Self)

\* a sign_input was refused for its index while a signed input existed
C4_Witness ==
    /\ ret.op = "sign_input"
    /\ ret.status = "IndexError"
    /\ \E i \in 1 .. Len(inputs) : inputs[i].script_sig # None

\* C5: build never raises and changes nothing; its record has version 1,
\* locktime 0, the inputs and outputs in insertion order, an empty script
\* text for an unsigned input and the hex of the stored script otherwise.
C5_Build ==
    LET r == build(Self)
    IN /\ r.self = Self
       /\ r.status = "ok"
       /\ r.val.version = 1
       /\ r.val.locktime = 0
       /\ Len(r.val.inputs) = Len(inputs)
       /\ Len(r.val.outputs) = Len(outputs)
       /\ \A i \in 1 .. Len(inputs) :
             /\ SameInputIdentity(r.val.inputs[i], inputs[i])
             /\ r.val.inputs[i].script_sig =
                   IF inputs[i].script_sig = None THEN <<>>
                   ELSE Hex(inputs[i].script_sig[1])
       /\ \A i \in 1 .. Len(outputs) :
             /\ r.val.outputs[i].amount = outputs[i].amount
             /\ r.val.outputs[i].script_pubkey = outputs[i].script_pubkey
       /\ ret.op = "build" => ret.val = r.val

\* build ran on a transaction with a signed and an unsigned input
C5_Witness ==
    /\ ret.op = "build"
    /\ Len(inputs) = 2
    /\ Len(outputs) >= 1
    /\ inputs[1].script_sig = None
    /\ inputs[2].script_sig # None
    /\ Len(ret.val.inputs[2].script_sig) > 4

\* C6: calculate_fee returns (10 + 68 * inputs + 34 * outputs) * fee_rate
\* and changes nothing; at fee_rate > 0 the fee after an add_input, an
\* add_output or an appending add_change_output is higher than before;
\* 1 input and 1 output at fee_rate 1 give 112.
C6_Fee ==
    LET fee == calculate_fee(Self)
    IN /\ fee.status = "ok"
       /\ fee.self = Self
       /\ fee.val = (10 + 68 * Len(inputs) + 34 * Len(outputs)) * fee_rate
       /\ (Len(inputs) = 1 /\ Len(outputs) = 1 /\ fee_rate = 1) => fee.val = 112
       /\ ret.op = "calculate_fee" => ret.val = fee.val
       /\ fee_rate > 0 =>
             /\ \A i \in 1 .. Len(wallet) :
                   calculate_fee(add_input(Self, wallet[i]).self).val > fee.val
             /\ \A o \in OutputArgs :
                   calculate_fee(add_output(Self, o[1], o[2]).self).val > fee.val
             /\ \A ia \in ChangeInputAmounts, oa \in ChangeOutputAmounts, f \in ChangeFees :
                   LET r == add_change_output(Self, ia, oa, f)
                   IN Len(r.self.outputs) > Len(outputs) =>
                         calculate_fee(r.self).val > fee.val

\* the fee of the 1-input 1-output transaction at fee_rate 1
C6_Witness ==
    /\ ret.op = "calculate_fee"
    /\ Len(inputs) = 1 /\ Len(outputs) = 1 /\ fee_rate = 1
    /\ ret.val = 112

\* the layout [len(signature)][signature + sighash type][len(pubkey)][pubkey]
\* of a stored script, signature meaning the DER signature with its type byte
ScriptLayout(bs, sig_hash_type) ==
    /\ Len(bs) = 5
    /\ bs[2].k = "ecdsa_der"
    /\ bs[3] = [k |-> "byte", v |-> sig_hash_type, len |-> 1]
    /\ bs[1] = [k |-> "byte", v |-> bs[2].len + 1, len |-> 1]
    /\ bs[5].k = "pubkey"
    /\ bs[4] = [k |-> "byte", v |-> bs[5].len, len |-> 1]

\* C7: a successful sign_input(i, key) with 0 <= i < len(inputs) makes input
\* i's script present, non-empty and laid out as above (a fresh script, also
\* when one was there before) and changes nothing else.
C7_SignEffect ==
    \A i \in 0 .. Len(inputs) - 1, key \in PrivateKeys, t \in SigHashTypes, n \in SigNonces :
       LET r == sign_input(Self, i, key, t, n)
       IN r.status = "ok" =>
             /\ Len(r.self.inputs) = Len(inputs)
             /\ r.self.inputs[i + 1].script_sig # None
             /\ r.self.inputs[i + 1].script_sig[1] # <<>>
             /\ ScriptLayout(r.self.inputs[i + 1].script_sig[1], t)
             /\ r.self.inputs[i + 1].script_sig[1][5].v = key.id
             /\ r.self.inputs[i + 1] =
                   [inputs[i + 1] EXCEPT !.script_sig = r.self.inputs[i + 1].script_sig]
             /\ \A j \in 1 .. Len(inputs) : j # i + 1 => r.self.inputs[j] = inputs[j]
             /\ r.self.outputs = outputs
             /\ r.self.fee_rate = fee_rate
             /\ r.self.change_address = change_address

\* the first of two inputs was signed, the second is still unsigned
C7_Witness ==
    /\ ret.op = "sign_input"
    /\ ret.status = "ok"
    /\ Len(inputs) = 2
    /\ inputs[1].script_sig # None
    /\ inputs[2].script_sig = None

\* C8: in every step of every operation the earlier input list and output
\* list are prefixes of the later ones; an existing input keeps txid, vout
\* and sequence, an existing output keeps amount and script_pubkey.
C8_AppendOnly ==
    [][/\ Len(inputs') >= Len(inputs)
       /\ \A i \in 1 .. Len(inputs) : SameInputIdentity(inputs'[i], inputs[i])
       /\ Len(outputs') >= Len(outputs)
       /\ \A i \in 1 .. Len(outputs) : outputs'[i] = outputs[i]]_vars

\* two different inputs and two different outputs, one input signed
C8_Witness ==
    /\ Len(inputs) = 2
    /\ inputs[1].txid # inputs[2].txid
    /\ inputs[1].script_sig # None
    /\ Len(outputs) = 2
    /\ outputs[1] # outputs[2]

\* the digest embedded in a stored script (what the signature was made over)
SignedDigest(script) == script[1][2].v[2]

\* the builders an add_input, an add_output or an appending
\* add_change_output can make of self
Grown(self) ==
    {add_input(self, wallet[i]).self : i \in 1 .. Len(wallet)}
    \cup {add_output(self, o[1], o[2]).self : o \in OutputArgs}
    \cup {s \in {add_change_output(self, ia, oa, f).self :
                    ia \in ChangeInputAmounts, oa \in ChangeOutputAmounts, f \in ChangeFees} :
             Len(s.outputs) > Len(self.outputs)}

\* C9: sign_input signs the digest of the state it is called in; a later
\* add_input, add_output or appending add_change_output keeps every stored
\* script byte for byte while the digest of each signed input changes.
C9_StaleSignature ==
    /\ \A i \in SignIndices, key \in PrivateKeys, t \in SigHashTypes, n \in SigNonces :
          LET r == sign_input(Self, i, key, t, n)
          IN r.status = "ok" =>
                SignedDigest(r.self.inputs[PyIndex(Len(inputs), i)].script_sig)
                   = create_signature_hash(Self, i, t).val
    /\ \A g \in Grown(Self) :
          \A j \in 1 .. Len(inputs) :
             inputs[j].script_sig # None =>
                /\ g.inputs[j].script_sig = inputs[j].script_sig
                /\ create_signature_hash(g, j - 1, 1).val
                      # create_signature_hash(Self, j - 1, 1).val

\* a signed input whose signature is over a digest that is no longer the
\* digest of that input
C9_Witness ==
    \E j \in 1 .. Len(inputs) :
       /\ inputs[j].script_sig # None
       /\ SignedDigest(inputs[j].script_sig) # create_signature_hash(Self, j - 1, 1).val

(* ===================== coin selection on its own ====================== *)
\* UTXOs with a tie (P1, P2), a smaller amount and a zero amount
P1 == UTXO(<<"a">>, 0, 2, "76a914a1")
P2 == UTXO(<<"b">>, 1, 2, "76a914a2")
P3 == UTXO(<<"c">>, 0, 1, "76a914a3")
P4 == UTXO(<<"d">>, 0, 0, "76a914a4")
SelectPool == {P1, P2, P3, P4}
SelectLists == UNION {[1 .. n -> SelectPool] : n \in 0 .. MaxUtxos}
SelectTargets == (0 - 1) .. 7

InitSelect ==
    /\ inputs = <<>>
    /\ outputs = <<>>
    /\ fee_rate = 1
    /\ change_address = None
    /\ wallet \in SelectLists
    /\ other = [inputs |-> <<>>, outputs |-> <<>>]
    /\ ret = Ret("init", 0, "ok", None)

\* select_utxos on the caller's list, and add_input of one of its UTXOs
NextSelect ==
    \/ \E t \in SelectTargets : SelectUtxos(t)
    \/ \E i \in 1 .. Len(wallet) : AddInput(wallet[i])

SpecSelect == InitSelect /\ [][NextSelect]_vars

RECURSIVE SumAmounts(_)
SumAmounts(us) == IF us = <<>> THEN 0 ELSE Head(us).amount + SumAmounts(Tail(us))

\* s is us reordered by the permutation p, amounts descending, equal amounts
\* in their order in us
StableDescending(s, us, p) ==
    /\ Len(s) = Len(us)
    /\ \A i \in 1 .. Len(us) : \E j \in 1 .. Len(us) : p[j] = i
    /\ \A i \in 1 .. Len(us) : s[i] = us[p[i]]
    /\ \A i, j \in 1 .. Len(us) :
          i < j => \/ s[i].amount > s[j].amount
                   \/ s[i].amount = s[j].amount /\ p[i] < p[j]

\* sel is a prefix of the amount-descending stable ordering of us
PrefixOfStableDescending(sel, us) ==
    \E p \in [1 .. Len(us) -> 1 .. Len(us)] :
       LET s == [i \in 1 .. Len(us) |-> us[p[i]]]
       IN /\ StableDescending(s, us, p)
          /\ Len(sel) <= Len(us)
          /\ sel = SubSeq(s, 1, Len(sel))

C2_InsufficientFunds ==
    [][ret'.op = "select_utxos" =>
          /\ ret'.status \in {"ok", "ValueError"}
          /\ ret'.status = "ValueError" <=> SumAmounts(wallet) < ret'.arg
          /\ ret'.status = "ValueError" =>
                /\ ret'.val = <<>>
                /\ wallet' = wallet
                /\ UNCHANGED builder]_vars

\* a refused selection on an unsorted list, with an input already added
C2_Witness ==
    /\ ret.op = "select_utxos"
    /\ ret.status = "ValueError"
    /\ wallet = <<P3, P1>>
    /\ inputs # <<>>

(* =================== the signature digest on its own ================== *)
\* U3 has the txid of U1 and another vout (one that needs the second byte)
U3 == UTXO(<<"a", "b">>, 256, 300000, "76a914a3")
DigestPool == {U1, U2, U3}
O1 == TransactionOutput(50000, "76a914test")
O2 == TransactionOutput(546, "76a914cc")
DigestSigHashTypes == {1, 3}

\* the input lists add_input builds from the pool
AddedInputs == UNION {[1 .. n -> {TransactionInput(u) : u \in DigestPool}] : n \in 0 .. MaxInputs}
\* the same lists with the first input signed (before any output was added)
SignedInputs ==
    {sign_input([inputs |-> ins, outputs |-> <<>>, fee_rate |-> 1, change_address |-> None],
                0, GoodKey, 1, 1).self.inputs : ins \in AddedInputs \ {<<>>}}
OutputLists(os) == UNION {[1 .. n -> os] : n \in 0 .. MaxOutputs}

InitDigest ==
    /\ inputs \in AddedInputs \cup SignedInputs
    /\ outputs \in OutputLists({O1, O2})
    /\ fee_rate = 1
    /\ change_address = None
    /\ wallet = TestUtxos
    /\ other \in [inputs : AddedInputs, outputs : OutputLists({O1})]
    /\ ret = Ret("init", 0, "ok", None)

\* create_signature_hash for the same index on this builder and on the
\* second one, each with its own sig_hash_type
CreateSignatureHash(input_index, t1, t2) ==
    LET r1 == create_signature_hash(Self, input_index, t1)
        r2 == create_signature_hash(
                 [Self EXCEPT !.inputs = other.inputs, !.outputs = other.outputs],
                 input_index, t2)
    IN /\ ret' = Ret("create_signature_hash", input_index,
                     <<r1.status, r2.status>>, <<r1.val, r2.val>>)
       /\ UNCHANGED <<builder, wallet, other>>

NextDigest ==
    \E i \in 0 .. MaxInputs - 1, t1 \in {1}, t2 \in DigestSigHashTypes :
       CreateSignatureHash(i, t1, t2)

SpecDigest == InitDigest /\ [][NextDigest]_vars

\* the four values the claim names agree on the two builders for input i
SameFour(i) ==
    /\ Len(inputs) = Len(other.inputs)
    /\ inputs[i + 1].txid = other.inputs[i + 1].txid
    /\ inputs[i + 1].vout = other.inputs[i + 1].vout
    /\ Len(outputs) = Len(other.outputs)

\* C10: two builders that agree on the number of inputs, the txid and vout
\* of input i and the number of outputs get the same 32-byte digest for
\* input i, whatever else differs (outputs, other inputs, scripts,
\* sig_hash_type); two that differ in one of the four hash different bytes.
C10_DigestDependsOn ==
    (ret.op = "create_signature_hash" /\ ret.status = <<"ok", "ok">>) =>
       /\ ByteLen(ret.val[1]) = 32
       /\ ByteLen(ret.val[2]) = 32
       /\ SameFour(ret.arg) => ret.val[1] = ret.val[2]
       /\ ~SameFour(ret.arg) => ret.val[1][1].v # ret.val[2][1].v

\* equal digests on two builders that differ in a script, in the other input
\* and in the outputs' contents
C10_Witness ==
    /\ ret.op = "create_signature_hash"
    /\ ret.status = <<"ok", "ok">>
    /\ ret.arg = 1
    /\ SameFour(1)
    /\ ret.val[1] = ret.val[2]
    /\ inputs[1].txid # other.inputs[1].txid
    /\ inputs[1].script_sig # None
    /\ Len(outputs) = 2
    /\ outputs # other.outputs

====
